---------------------------- MODULE Spec2Model ----------------------------
(***************************************************************************)
(* A model of maplify: the title normaliser (sanitizeTitle), the matcher   *)
(* (FindBestMatchByTitles), the response extractor's array search          *)
(* (findArray), the cross-source mapper (mapTitles) and the fetch/join     *)
(* pipeline of Maplify.search.                                             *)
(*                                                                         *)
(* Strings are sequences of one-character strings.  An optional value      *)
(* (string | undefined) is a sequence of length at most one: <<>> is       *)
(* undefined and <<s>> is the string s.                                    *)
(***************************************************************************)
EXTENDS Integers, Sequences, FiniteSets, TLC

VARIABLES
    sIn,          \* sanitize: the title handed to the first application
    sOut,         \* sanitize: the results of the successive applications
    payload,      \* findArray: the decoded payload searched
    faOut,        \* findArray: the outcome of the search
    mTitle,       \* matcher: the source title
    mResults,     \* matcher: the candidate entries
    mOut,         \* matcher: the returned record
    xData,        \* mapper: the extracted entry sequences, one per source
    xK,           \* mapper: the number of base entries already visited
    xGroups,      \* mapper: mappedTitles built so far
    xCalls,       \* mapper: the matcher invocations made so far
    xSt,          \* mapper: "run", "done" or "threw"
    args,         \* pipeline: the constructor's arguments
    websites,     \* pipeline: this.websites
    pc,           \* pipeline: position of the constructor / search() flow
    fetch,        \* pipeline: the promise of each fetchData call
    order,        \* pipeline: source indices in the order their fetches settled
    requests,     \* pipeline: the HTTP requests issued so far
    out           \* pipeline: what search() settled with

sanVars  == <<sIn, sOut>>
faVars   == <<payload, faOut>>
mVars    == <<mTitle, mResults, mOut>>
xVars    == <<xData, xK, xGroups, xCalls, xSt>>
pVars    == <<args, websites, pc, fetch, order, requests, out>>
vars     == <<sIn, sOut, payload, faOut, mTitle, mResults, mOut,
              xData, xK, xGroups, xCalls, xSt,
              args, websites, pc, fetch, order, requests, out>>

(***************************************************************************)
(* Strings                                                                 *)
(***************************************************************************)
Undefined == <<>>
Some(s)   == <<s>>

Rep(c, n) == [i \in 1..n |-> c]

\* String.prototype.toLowerCase, on the characters the model uses
Lower(c) ==
    CASE c = "A" -> "a"
      [] c = "B" -> "b"
      [] c = "D" -> "d"
      [] OTHER   -> c

toLowerCase(s) == [i \in 1..Len(s) |-> Lower(s[i])]

IsSpace(c) == c = " "

\* s with the characters at positions from..to removed
Cut(s, from, to) == SubSeq(s, 1, from - 1) \o SubSeq(s, to + 1, Len(s))

\* the literal lit occurs in s at position p, compared case-insensitively
MatchAt(s, p, lit) ==
    /\ p >= 1
    /\ p + Len(lit) - 1 <= Len(s)
    /\ \A j \in 1..Len(lit) : Lower(s[p + j - 1]) = lit[j]

\* the start of the run of spaces that ends right before position p
RECURSIVE SpaceRunStart(_, _)
SpaceRunStart(s, p) ==
    IF p > 1 /\ s[p - 1] = " " THEN SpaceRunStart(s, p - 1) ELSE p

\* String.prototype.trim
RECURSIVE trimStart(_)
trimStart(s) ==
    IF s # <<>> /\ IsSpace(Head(s)) THEN trimStart(Tail(s)) ELSE s

RECURSIVE trimEnd(_)
trimEnd(s) ==
    IF s # <<>> /\ IsSpace(s[Len(s)])
    THEN trimEnd(SubSeq(s, 1, Len(s) - 1)) ELSE s

trim(s) == trimEnd(trimStart(s))

\* String.prototype.substring(0, n)
substring0(s, n) == SubSeq(s, 1, IF Len(s) < n THEN Len(s) ELSE n)

(***************************************************************************)
(* sanitizeTitle                                                           *)
(***************************************************************************)
TruncLen == 99

Markers == <<
    <<"(", "d", "u", "b", ")">>,
    <<"(", "s", "u", "b", ")">>,
    <<"(", "u", "n", "c", "e", "n", "s", "o", "r", "e", "d", ")">>,
    <<"(", "u", "n", "c", "u", "t", ")">>,
    <<"(", "s", "u", "b", "b", "e", "d", ")">>,
    <<"(", "d", "u", "b", "b", "e", "d", ")">> >>

Audio == <<"a", "u", "d", "i", "o">>

Min(S) == CHOOSE x \in S : \A y \in S : x <= y
Max(S) == CHOOSE x \in S : \A y \in S : x >= y

\* / *(\(dub\)|\(sub\)|\(uncensored\)|\(uncut\)|\(subbed\)|\(dubbed\))/i
\* replaced by "": no g flag, so only the leftmost match is removed
StripMarker(s) ==
    LET hits == { p \in 1..Len(s) :
                    \E m \in 1..Len(Markers) : MatchAt(s, p, Markers[m]) }
    IN  IF hits = {} THEN s
        ELSE LET p == Min(hits)
                 m == Min({ n \in 1..Len(Markers) : MatchAt(s, p, Markers[n]) })
             IN  Cut(s, SpaceRunStart(s, p), p + Len(Markers[m]) - 1)

\* the position of the first ")" of s after position p, 0 when there is none
FirstClose(s, p) ==
    LET qs == { q \in (p + 1)..Len(s) : s[q] = ")" }
    IN  IF qs = {} THEN 0 ELSE Min(qs)

\* / *\([^)]+audio\)/i matches at the "(" of position p
AudioAt(s, p) ==
    /\ s[p] = "("
    /\ LET q == FirstClose(s, p)
       IN  /\ q # 0
           /\ q - p - 1 >= Len(Audio) + 1
           /\ MatchAt(s, q - Len(Audio), Audio)

\* / *\([^)]+audio\)/i replaced by "", leftmost match only
StripAudio(s) ==
    LET hits == { p \in 1..Len(s) : AudioAt(s, p) }
    IN  IF hits = {} THEN s
        ELSE LET p == Min(hits)
             IN  Cut(s, SpaceRunStart(s, p), FirstClose(s, p))

\* / BD( |$)/i matches at position p; the length matched, 0 when it does not
BDAt(s, p) ==
    IF MatchAt(s, p, <<" ", "b", "d">>)
    THEN IF p + 3 <= Len(s) /\ s[p + 3] = " " THEN 4
         ELSE IF p + 2 = Len(s) THEN 3 ELSE 0
    ELSE 0

\* / BD( |$)/i replaced by "", leftmost match only
StripBD(s) ==
    LET hits == { p \in 1..Len(s) : BDAt(s, p) > 0 }
    IN  IF hits = {} THEN s
        ELSE LET p == Min(hits) IN Cut(s, p, p + BDAt(s, p) - 1)

\* sanitizeTitle(title): title and the result are string | undefined.  The
\* empty string is falsy, so it is answered with undefined like undefined is.
sanitizeTitle(title) ==
    IF title = Undefined \/ title[1] = <<>>
    THEN Undefined
    ELSE Some(substring0(trim(StripBD(StripAudio(StripMarker(
                 toLowerCase(title[1]))))), TruncLen))

(***************************************************************************)
(* Specification of the normaliser: a title is drawn, sanitizeTitle is     *)
(* applied to it, and then again to its own result.                        *)
(***************************************************************************)
MaxFrags == 3

Fragments == {
    <<"a">>, <<" ">>, <<"(">>, <<")">>,
    <<"(", "d", "u", "b", ")">>,
    <<"(", "S", "u", "b", ")">>,
    <<" ", "B", "D">>,
    <<"(", "x", " ", "a", "u", "d", "i", "o", ")">>,
    Rep("a", TruncLen - 1) }

RECURSIVE FragStrings(_)
FragStrings(n) ==
    IF n = 0 THEN { <<>> }
    ELSE LET prev == FragStrings(n - 1)
         IN  prev \cup { s \o f : s \in prev, f \in Fragments }

SanInputs == { Undefined } \cup { Some(s) : s \in FragStrings(MaxFrags) }

SanIdle == sIn = Undefined /\ sOut = <<>>

SanInit == sIn \in SanInputs /\ sOut = <<>>

\* one application of sanitizeTitle: to the input, then to the last result
Sanitize ==
    /\ Len(sOut) < 2
    /\ sOut' = Append(sOut, sanitizeTitle(IF sOut = <<>> THEN sIn
                                         ELSE sOut[Len(sOut)]))
    /\ UNCHANGED sIn


(***************************************************************************)
(* Scores.  A similarity score is the exact fraction <<n, d>> in lowest    *)
(* terms; Infinity is <<1, 0>>.                                            *)
(***************************************************************************)
RECURSIVE Gcd(_, _)
Gcd(a, b) == IF b = 0 THEN a ELSE Gcd(b, a % b)

Frac(n, d) == IF n = 0 THEN <<0, 1>> ELSE <<n \div Gcd(n, d), d \div Gcd(n, d)>>

Zero     == <<0, 1>>
One      == <<1, 1>>
Infinity == <<1, 0>>

Less(a, b) == a[1] * b[2] < b[1] * a[2]

\* Math.min
MathMin(a, b) == IF Less(b, a) THEN b ELSE a

(***************************************************************************)
(* string-similarity: compareTwoStrings and findBestMatch                  *)
(***************************************************************************)
\* first.replace(/\s+/g, '')
RECURSIVE StripSpaces(_)
StripSpaces(s) ==
    IF s = <<>> THEN <<>>
    ELSE IF IsSpace(Head(s)) THEN StripSpaces(Tail(s))
    ELSE <<Head(s)>> \o StripSpaces(Tail(s))

Bigrams(s) == { <<s[i], s[i + 1]>> : i \in 1..(Len(s) - 1) }

BigramCount(s, b) == Cardinality({ i \in 1..(Len(s) - 1) : <<s[i], s[i + 1]>> = b })

RECURSIVE SumMin(_, _, _)
SumMin(bs, f, g) ==
    IF bs = {} THEN 0
    ELSE LET b == CHOOSE x \in bs : TRUE
         IN  (IF BigramCount(f, b) < BigramCount(g, b)
              THEN BigramCount(f, b) ELSE BigramCount(g, b))
             + SumMin(bs \ {b}, f, g)

\* the Dice coefficient over character bigrams, counted as multisets
compareTwoStrings(first, second) ==
    LET f == StripSpaces(first)
        g == StripSpaces(second)
    IN  IF f = g THEN One
        ELSE IF Len(f) < 2 \/ Len(g) < 2 THEN Zero
        ELSE Frac(2 * SumMin(Bigrams(f), f, g), Len(f) + Len(g) - 2)

\* findBestMatch rejects an empty target list and targets that are no strings
areArgsValid(targetStrings) ==
    /\ targetStrings # <<>>
    /\ \A i \in 1..Len(targetStrings) : targetStrings[i] # Undefined

\* ratings: the rating of every target, in order
RECURSIVE Ratings(_, _)
Ratings(mainString, targets) ==
    IF targets = <<>> THEN <<>>
    ELSE <<[target |-> Head(targets)[1],
            rating |-> compareTwoStrings(mainString, Head(targets)[1])]>>
         \o Ratings(mainString, Tail(targets))

\* bestMatchIndex: the first target with the highest rating
RECURSIVE BestIndex(_, _, _)
BestIndex(ratings, i, best) ==
    IF i > Len(ratings) THEN best
    ELSE BestIndex(ratings, i + 1,
             IF Less(ratings[best].rating, ratings[i].rating) THEN i ELSE best)

BestOf(ratings) ==
    [target |-> ratings[BestIndex(ratings, 1, 1)].target,
     score  |-> ratings[BestIndex(ratings, 1, 1)].rating]

\* findBestMatch(mainString, targetStrings).bestMatch as {target, score};
\* targetStrings holds optional strings and is valid
findBestMatch(mainString, targetStrings) ==
    BestOf(Ratings(mainString, targetStrings))

(***************************************************************************)
(* Titles and entries.  A title is undefined, a string, or an object of    *)
(* three optional strings (english, romaji, native).                       *)
(***************************************************************************)
TUndef           == [k |-> "undef", v |-> <<>>]
TStr(s)          == [k |-> "str", v |-> <<s>>]
TObj(en, ro, na) == [k |-> "obj", v |-> <<en, ro, na>>]

\* JavaScript truthiness of a title, and of an optional string
Truthy(t) ==
    \/ t.k = "obj"
    \/ t.k = "str" /\ t.v[1] # <<>>

TruthyStr(o) == o # Undefined /\ o[1] # <<>>

Entry(t) == [title |-> t]

(***************************************************************************)
(* FindBestMatchByTitles                                                   *)
(***************************************************************************)
\* results.map(r => r.title).filter(t => t !== undefined): the titles kept
RECURSIVE DefinedTitles(_)
DefinedTitles(results) ==
    IF results = <<>> THEN <<>>
    ELSE IF Head(results).title.k = "undef" THEN DefinedTitles(Tail(results))
    ELSE <<Head(results).title>> \o DefinedTitles(Tail(results))

RECURSIVE SanitizeAll(_)
SanitizeAll(ts) ==
    IF ts = <<>> THEN <<>>
    ELSE <<sanitizeTitle(Head(ts).v)>> \o SanitizeAll(Tail(ts))

\* .map(t => sanitizeTitle(t)) over the titles kept
ResultTitles(results) == SanitizeAll(DefinedTitles(results))

\* sanitizeTitle calls toLowerCase on a title that is an object: a TypeError
SanitizeThrows(results) ==
    \E i \in 1..Len(results) : results[i].title.k = "obj"

\* the representations findBestMatch is called for, in the order their
\* matches are pushed: the string itself, or english, romaji, native
Representations(title) ==
    IF title.k = "str" THEN <<title.v[1]>>
    ELSE LET en == title.v[1]
             ro == title.v[2]
             na == title.v[3]
         IN  (IF TruthyStr(en) THEN <<en[1]>> ELSE <<>>)
             \o (IF TruthyStr(ro) THEN <<ro[1]>> ELSE <<>>)
             \o (IF TruthyStr(na) THEN <<na[1]>> ELSE <<>>)

\* one {target, score} per representation, in the order they are pushed
RECURSIVE MatchesOf(_, _)
MatchesOf(reps, resultTitles) ==
    IF reps = <<>> THEN <<>>
    ELSE <<findBestMatch(sanitizeTitle(Some(Head(reps)))[1], resultTitles)>>
         \o MatchesOf(Tail(reps), resultTitles)

\* matches
Matches(title, resultTitles) == MatchesOf(Representations(title), resultTitles)

\* frequencyMap[target] after the forEach
frequencyMap(matches, target) ==
    Cardinality({ i \in 1..Len(matches) : matches[i].target = target })

RECURSIVE scoreMapFirst(_, _)
scoreMapFirst(matches, target) ==
    IF Head(matches).target = target THEN Head(matches).score
    ELSE scoreMapFirst(Tail(matches), target)

\* scoreMap[target] after the forEach: every match of the target assigns it
RECURSIVE scoreMap(_, _)
scoreMap(matches, target) ==
    LET n == Len(matches)
    IN  IF matches[n].target = target THEN matches[n].score
        ELSE scoreMap(SubSeq(matches, 1, n - 1), target)

RECURSIVE IndexOf(_, _, _)
IndexOf(seq, x, i) ==
    IF i > Len(seq) THEN -1
    ELSE IF seq[i] = x THEN i - 1
    ELSE IndexOf(seq, x, i + 1)

\* indexMap[target]: resultTitles.indexOf(target), zero-based
indexMap(resultTitles, target) == IndexOf(resultTitles, Some(target), 1)

\* the keys of frequencyMap in the order they were first assigned
RECURSIVE InsertionOrder(_, _)
InsertionOrder(matches, seen) ==
    IF matches = <<>> THEN seen
    ELSE InsertionOrder(Tail(matches),
             IF \E i \in 1..Len(seen) : seen[i] = Head(matches).target
             THEN seen ELSE Append(seen, Head(matches).target))

Digits == <<"0", "1", "2", "3", "4", "5", "6", "7", "8", "9">>

IsDigit(c) == \E d \in 1..10 : Digits[d] = c

DigitVal(c) == (CHOOSE d \in 1..10 : Digits[d] = c) - 1

RECURSIVE NumVal(_)
NumVal(s) ==
    IF s = <<>> THEN 0
    ELSE 10 * NumVal(SubSeq(s, 1, Len(s) - 1)) + DigitVal(s[Len(s)])

\* a property key that is an array index: a canonical decimal integer
\* (keys of up to nine digits; the limit 2^32 - 2 has ten)
IsArrayIndex(s) ==
    /\ s # <<>>
    /\ Len(s) <= 9
    /\ \A i \in 1..Len(s) : IsDigit(s[i])
    /\ Len(s) = 1 \/ s[1] # "0"

RECURSIVE SortByNum(_)
SortByNum(S) ==
    IF S = {} THEN <<>>
    ELSE LET m == CHOOSE x \in S : \A y \in S : NumVal(x) <= NumVal(y)
         IN  <<m>> \o SortByNum(S \ {m})

\* the members of seq that are in keep, in the order of seq
RECURSIVE Keep(_, _)
Keep(seq, keep) ==
    IF seq = <<>> THEN <<>>
    ELSE (IF Head(seq) \in keep THEN <<Head(seq)>> ELSE <<>>)
         \o Keep(Tail(seq), keep)

\* the keys ks with those that are array indices moved to the front, in
\* ascending numeric order
IndicesFirst(ks) ==
    SortByNum({ ks[i] : i \in { j \in 1..Len(ks) : IsArrayIndex(ks[j]) } })
    \o Keep(ks, { ks[i] : i \in { j \in 1..Len(ks) : ~IsArrayIndex(ks[j]) } })

\* the keys of Object.entries(frequencyMap): the keys that are array
\* indices first, in ascending numeric order, then the other keys in
\* insertion order
ObjectEntries(matches) == IndicesFirst(InsertionOrder(matches, <<>>))

\* the for-of loop over the entries: a key replaces the winner only with a
\* strictly higher frequency.  st = <<winner (optional), maxFrequency>>
RECURSIVE PickWinner(_, _, _)
PickWinner(keys, matches, st) ==
    IF keys = <<>> THEN st[1]
    ELSE PickWinner(Tail(keys), matches,
             IF frequencyMap(matches, Head(keys)) > st[2]
             THEN <<Some(Head(keys)), frequencyMap(matches, Head(keys))>>
             ELSE st)

NoMatch ==
    [threw |-> FALSE, mostCommonMatch |-> Undefined,
     mostCommonMatchIndex |-> -1, similarityScore |-> Zero]

Threw ==
    [threw |-> TRUE, mostCommonMatch |-> Undefined,
     mostCommonMatchIndex |-> -1, similarityScore |-> Zero]

\* mostCommonMatch after the loop over Object.entries(frequencyMap)
MostCommonMatch(matches) ==
    PickWinner(ObjectEntries(matches), matches, <<Undefined, 0>>)

\* the record returned, given resultTitles, matches and mostCommonMatch
Returned(resultTitles, matches, mostCommonMatch) ==
    [threw |-> FALSE,
     mostCommonMatch |-> mostCommonMatch,
     mostCommonMatchIndex |->
         IF TruthyStr(mostCommonMatch)
         THEN indexMap(resultTitles, mostCommonMatch[1]) ELSE -1,
     similarityScore |->
         IF mostCommonMatch = Undefined THEN Zero
         ELSE scoreMap(matches, mostCommonMatch[1])]

FromMatches(resultTitles, matches) ==
    Returned(resultTitles, matches, MostCommonMatch(matches))

\* the matcher from resultTitles on: findBestMatch throws on a target list
\* that is empty or holds a title that is no string
FromResultTitles(title, resultTitles) ==
    IF Representations(title) # <<>> /\ ~areArgsValid(resultTitles)
    THEN Threw
    ELSE FromMatches(resultTitles, Matches(title, resultTitles))

\* FindBestMatchByTitles(title, results); mostCommonMatch null is Undefined
FindBestMatchByTitles(title, results) ==
    IF ~Truthy(title) THEN NoMatch
    ELSE IF SanitizeThrows(results) THEN Threw
    ELSE FromResultTitles(title, ResultTitles(results))


(***************************************************************************)
(* Specification of the matcher: a source title and a candidate sequence   *)
(* are drawn and FindBestMatchByTitles is called once.                     *)
(***************************************************************************)
MaxCands == 2

Sabc == <<"a", "b", "c">>
Sab  == <<"a", "b">>
S86  == <<"8", "6">>
Sdub == <<"(", "d", "u", "b", ")">>

RepStrings == { Sabc, Sab, S86 }

OptReps == { Undefined } \cup { Some(s) : s \in RepStrings }

MTitles ==
    { TUndef, TStr(<<>>) }
    \cup { TStr(s) : s \in RepStrings }
    \cup { TObj(en, ro, na) : en \in OptReps, ro \in OptReps, na \in OptReps }

CandTitles == { TUndef, TStr(<<>>), TStr(Sdub) } \cup { TStr(s) : s \in RepStrings }

RECURSIVE SeqsUpTo(_, _)
SeqsUpTo(S, n) ==
    IF n = 0 THEN { <<>> }
    ELSE LET prev == SeqsUpTo(S, n - 1)
         IN  prev \cup { Append(q, x) : q \in prev, x \in S }

MIdle == mTitle = TUndef /\ mResults = <<>> /\ mOut = <<>>

MInit ==
    /\ mTitle \in MTitles
    /\ mResults \in SeqsUpTo({ Entry(t) : t \in CandTitles }, MaxCands)
    /\ mOut = <<>>

Match ==
    /\ mOut = <<>>
    /\ mOut' = <<FindBestMatchByTitles(mTitle, mResults)>>
    /\ UNCHANGED <<mTitle, mResults>>

(***************************************************************************)
(* mapTitles                                                               *)
(***************************************************************************)
\* lowestScore after a matcher result: only a match lowers it
LowestAll(lowest, bestMatch) == MathMin(lowest, bestMatch.similarityScore)

LowestScore(lowest, bestMatch) ==
    IF bestMatch.mostCommonMatchIndex # -1
    THEN MathMin(lowest, bestMatch.similarityScore)
    ELSE lowest

\* one turn of the for loop, for source i with the matcher's bestMatch.
\* acc = [threw, data, score, calls]: data holds the pairs
\* <<source number, entry>> stored under the keys website<number>
Turn(acc, k, i, otherData, bestMatch) ==
    IF bestMatch.threw
    THEN [acc EXCEPT !.threw = TRUE, !.calls = Append(acc.calls, <<k, i>>)]
    ELSE [threw |-> FALSE,
          data  |-> IF bestMatch.mostCommonMatchIndex # -1
                    THEN Append(acc.data,
                        <<i, otherData[bestMatch.mostCommonMatchIndex + 1]>>)
                    ELSE acc.data,
          score |-> LowestScore(acc.score, bestMatch),
          calls |-> Append(acc.calls, <<k, i>>)]

\* the for loop over the other sources, from source i on (source 1 is the
\* base); a matcher that throws ends it
RECURSIVE OtherSources(_, _, _, _)
OtherSources(extractedData, k, i, acc) ==
    IF i > Len(extractedData) \/ acc.threw THEN acc
    ELSE OtherSources(extractedData, k, i + 1,
             Turn(acc, k, i, extractedData[i],
                  FindBestMatchByTitles(extractedData[1][k].title,
                                        extractedData[i])))

SkipItem == [threw |-> FALSE, emit |-> <<>>, calls |-> <<>>]

\* what the callback does once the for loop has ended with r: the group
\* is pushed when matches has more keys than base
Emit(k, baseItem, r) ==
    [threw |-> r.threw,
     emit  |-> IF ~r.threw /\ Len(r.data) + 1 > 1
               THEN <<[at |-> k, base |-> baseItem,
                       data |-> r.data, score |-> r.score]>>
               ELSE <<>>,
     calls |-> r.calls]

SkipOnlyUndefined(baseItem) == baseItem.title.k = "undef"

\* the else branch of the callback: baseItem && baseItem.title is falsy
IsSkipped(baseItem) == ~Truthy(baseItem.title)

\* the forEach callback for base entry k: what it pushes to mappedTitles
\* (at most one group), the matcher calls it makes, and whether it threw
MapBaseItem(extractedData, k) ==
    IF IsSkipped(extractedData[1][k]) THEN SkipItem
    ELSE Emit(k, extractedData[1][k],
              OtherSources(extractedData, k, 2,
                  [threw |-> FALSE, data |-> <<>>,
                   score |-> Infinity, calls |-> <<>>]))

\* the forEach from base entry k on; st = [threw, groups]
Pushed(st, r) ==
    IF r.threw THEN [threw |-> TRUE, groups |-> <<>>]
    ELSE [threw |-> FALSE, groups |-> st.groups \o r.emit]

RECURSIVE MapFrom(_, _, _)
MapFrom(extractedData, k, st) ==
    IF k > Len(extractedData[1]) \/ st.threw THEN st
    ELSE MapFrom(extractedData, k + 1, Pushed(st, MapBaseItem(extractedData, k)))

\* mapTitles(extractedData) as a whole: [threw, groups]
mapTitles(extractedData) ==
    MapFrom(extractedData, 1, [threw |-> FALSE, groups |-> <<>>])

(***************************************************************************)
(* Specification of the mapper: the extracted entry sequences are drawn    *)
(* and mapTitles visits the base entries one forEach callback at a time.   *)
(***************************************************************************)
MaxBase == 2
MaxOthers == 2

BaseTitles ==
    { TUndef, TStr(<<>>), TStr(Sabc), TStr(Sab),
      TObj(Some(Sabc), Some(Sab), Undefined) }

OtherLists == {
    <<>>,
    <<Entry(TStr(Sabc))>>,
    <<Entry(TStr(Sabc)), Entry(TStr(Sab))>>,
    <<Entry(TUndef), Entry(TStr(Sab))>>,
    <<Entry(TStr(Sdub))>> }

XData ==
    { <<b>> \o o :
        b \in SeqsUpTo({ Entry(t) : t \in BaseTitles }, MaxBase),
        o \in SeqsUpTo(OtherLists, MaxOthers) \ { <<>> } }

XIdle ==
    /\ xData = <<>> /\ xK = 0 /\ xGroups = <<>> /\ xCalls = <<>>
    /\ xSt = "idle"

XInit ==
    /\ xData \in XData
    /\ xK = 0 /\ xGroups = <<>> /\ xCalls = <<>>
    /\ xSt = "run"

\* the forEach callback runs for the next base entry
MapStep ==
    /\ xSt = "run"
    /\ xK < Len(xData[1])
    /\ \E r \in { MapBaseItem(xData, xK + 1) } :
           /\ xK' = xK + 1
           /\ xCalls' = xCalls \o r.calls
           /\ xGroups' = IF r.threw THEN xGroups ELSE xGroups \o r.emit
           /\ xSt' = IF r.threw THEN "threw" ELSE "run"
    /\ UNCHANGED xData

\* forEach is over: mapTitles returns mappedTitles
MapReturn ==
    /\ xSt = "run"
    /\ xK = Len(xData[1])
    /\ xSt' = "done"
    /\ UNCHANGED <<xData, xK, xGroups, xCalls>>


(***************************************************************************)
(* Payloads.  A decoded JSON value is [t, s, kv, el]: t is its type, s the *)
(* characters of a string, kv the <<key, value>> pairs of an object in key *)
(* enumeration order or the <<index, element>> pairs of an array.  A       *)
(* markup document has t = "html" and el, the elements that the website's  *)
(* mainSelector matches, in document order.                                *)
(***************************************************************************)
JNull     == [t |-> "null", s |-> <<>>, kv |-> <<>>, el |-> <<>>]
JNum      == [t |-> "num", s |-> <<>>, kv |-> <<>>, el |-> <<>>]
JStr(str) == [t |-> "str", s |-> str, kv |-> <<>>, el |-> <<>>]
JObj(kvs) == [t |-> "obj", s |-> <<>>, kv |-> kvs, el |-> <<>>]
JArr(xs)  == [t |-> "arr", s |-> <<>>, el |-> <<>>,
              kv |-> [i \in 1..Len(xs) |-> <<"#", xs[i]>>]]
Html(els) == [t |-> "html", s |-> <<>>, kv |-> <<>>, el |-> els]

\* what for (const key in obj) visits, as the values obj[key]: the values
\* of an object, the characters of a string (each a string), and nothing
\* for a number, a boolean or null
ForInValues(obj) ==
    IF obj.t = "obj" THEN [i \in 1..Len(obj.kv) |-> obj.kv[i][2]]
    ELSE IF obj.t = "str" THEN [i \in 1..Len(obj.s) |-> JStr(<<obj.s[i]>>)]
    ELSE <<>>

FoundArray(a) == [r |-> "array", a |-> [i \in 1..Len(a.kv) |-> a.kv[i][2]]]
FoundNull     == [r |-> "null", a |-> <<>>]
RangeError    == [r |-> "RangeError", a |-> <<>>]

\* the call stack holds StackLimit frames of findArray
StackLimit == 8

\* findArray(obj), called at stack depth d: the array found, null, or the
\* RangeError of a call stack that is exhausted
RECURSIVE findArray(_, _)
RECURSIVE findInValues(_, _)
findArray(obj, d) ==
    IF d > StackLimit THEN RangeError
    ELSE IF obj.t = "arr" THEN FoundArray(obj)
    ELSE findInValues(ForInValues(obj), d)

findInValues(vals, d) ==
    IF vals = <<>> THEN FoundNull
    ELSE IF findArray(Head(vals), d + 1).r = "null"
    THEN findInValues(Tail(vals), d)
    ELSE findArray(Head(vals), d + 1)

(***************************************************************************)
(* Specification of the array search: a payload is drawn and findArray is  *)
(* called on it.                                                           *)
(***************************************************************************)
MaxDepth == 2

Sok == <<"o", "k">>

JLeaves == { JNull, JStr(<<>>), JStr(Sok), JArr(<<>>), JArr(<<JNum>>) }

\* objects of up to two keys; at most one of the two values is nested
RECURSIVE JValues(_)
JValues(n) ==
    IF n = 0 THEN JLeaves
    ELSE LET prev == JValues(n - 1)
         IN  JLeaves
             \cup { JObj(<<>>) }
             \cup { JObj(<< <<"a", x>> >>) : x \in prev }
             \cup { JObj(<< <<"a", x>>, <<"b", y>> >>) : x \in prev, y \in JLeaves }
             \cup { JObj(<< <<"a", x>>, <<"b", y>> >>) : x \in JLeaves, y \in prev }

FaIdle == payload = JNull /\ faOut = <<>>

FaInit == payload \in JValues(MaxDepth) /\ faOut = <<>>

FindArray ==
    /\ faOut = <<>>
    /\ faOut' = <<findArray(payload, 1)>>
    /\ UNCHANGED payload

(***************************************************************************)
(* extractData                                                             *)
(***************************************************************************)
\* item[key] of a decoded object; <<>> when the item has no such key
RECURSIVE Lookup(_, _)
Lookup(kvs, key) ==
    IF kvs = <<>> THEN <<>>
    ELSE IF Head(kvs)[1] = key THEN <<Head(kvs)[2]>>
    ELSE Lookup(Tail(kvs), key)

OptStr(o) == IF o # <<>> /\ o[1].t = "str" THEN Some(o[1].s) ELSE Undefined

\* a title value of a payload as a title: the payloads hold titles that
\* are strings, objects of strings, null or absent
TitleOf(o) ==
    IF o = <<>> THEN TUndef
    ELSE IF o[1].t = "str" THEN TStr(o[1].s)
    ELSE IF o[1].t = "obj"
         THEN TObj(OptStr(Lookup(o[1].kv, "english")),
                   OptStr(Lookup(o[1].kv, "romaji")),
                   OptStr(Lookup(o[1].kv, "native")))
    ELSE TUndef

\* item.title
ItemTitle(item) ==
    TitleOf(IF item.t = "obj" THEN Lookup(item.kv, "title") ELSE <<>>)

IsApi(website) == website.isRestAPI \/ website.query

\* the API branch after findArray: the title check on every item
CheckItems(arrayData) ==
    IF arrayData.r = "RangeError"
    THEN [err |-> "RangeError", entries |-> <<>>]
    ELSE IF arrayData.r = "null"
    THEN [err |-> "should contain an array property", entries |-> <<>>]
    ELSE IF \E i \in 1..Len(arrayData.a) : ~Truthy(ItemTitle(arrayData.a[i]))
    THEN [err |-> "should contain a title property", entries |-> <<>>]
    ELSE [err |-> "none",
          entries |-> [i \in 1..Len(arrayData.a) |->
                          Entry(ItemTitle(arrayData.a[i]))]]

\* the API branch
ExtractApi(data) == CheckItems(findArray(data, 1))

\* the HTML branch.  Each element of the document carries the text and the
\* attribute that the title selector finds in it.  Without selectors,
\* mainSelector is "body" and no field is extracted.
ExtractHtml(data, website) ==
    [err |-> "none",
     entries |->
        IF website.selectors = "none" THEN <<Entry(TUndef)>>
        ELSE [i \in 1..Len(data.el) |->
                 IF website.selectors = "attr"
                 THEN Entry(TStr(IF data.el[i].attr = Undefined THEN <<>>
                                 ELSE data.el[i].attr[1]))
                 ELSE Entry(TStr(trim(data.el[i].text)))]]

extractData(data, website) ==
    IF IsApi(website) THEN ExtractApi(data) ELSE ExtractHtml(data, website)

(***************************************************************************)
(* Maplify: the constructor, fetchData and search                          *)
(***************************************************************************)
Website(q, v, r, sel) ==
    [query |-> q, variables |-> v, isRestAPI |-> r, selectors |-> sel]

GraphQL   == Website(TRUE, TRUE, FALSE, "none")
QueryOnly == Website(TRUE, FALSE, FALSE, "none")
VarsOnly  == Website(FALSE, TRUE, FALSE, "none")
RestApi   == Website(FALSE, FALSE, TRUE, "none")
HtmlText  == Website(FALSE, FALSE, FALSE, "text")
HtmlAttr  == Website(FALSE, FALSE, FALSE, "attr")

Configs == { GraphQL, QueryOnly, VarsOnly, RestApi, HtmlText, HtmlAttr }

CtorAcceptsOne(ws) == Len(ws) >= 1

\* the constructor's check: it throws when websites.length < 2
CtorAccepts(ws) == ~(Len(ws) < 2)

\* the error fetchData throws before any request, "none" when it sends one
ConfigError(website) ==
    IF website.query /\ ~website.variables THEN "GraphQL needs variables."
    ELSE IF website.variables /\ ~website.query THEN "GraphQL needs a query."
    ELSE "none"

\* the request fetchData sends: a POST of {query, variables} to the url, or
\* a GET of the url with the encoded search query appended
Request(i, website) ==
    [site |-> i,
     method |-> IF website.query /\ website.variables THEN "POST" ELSE "GET",
     queryAppended |-> ~(website.query \/ website.variables)]

Item(title) == JObj(<< <<"title", title>> >>)

JsonPayloads == {
    JObj(<< <<"data", JObj(<< <<"media", JArr(<<
        Item(JObj(<< <<"english", JStr(Sabc)>>, <<"romaji", JStr(Sab)>> >>)) >>)>> >>)>> >>),
    JObj(<< <<"total", JNum>>,
            <<"items", JArr(<< Item(JStr(Sab)),
                               Item(JStr(Sabc \o <<" ">> \o Sdub)) >>)>> >>) }

HtmlPayloads == {
    Html(<< [text |-> <<" ">> \o Sab \o <<" ">>, attr |-> Undefined],
            [text |-> Sabc \o <<" ">> \o Sdub, attr |-> Some(Sabc)] >>) }

\* what the server of a website answers with
Payloads(website) == IF IsApi(website) THEN JsonPayloads ELSE HtmlPayloads

Pending        == [st |-> "pending", val |-> JNull, err |-> "none"]
Fulfilled(p)   == [st |-> "fulfilled", val |-> p, err |-> "none"]
Rejected(e)    == [st |-> "rejected", val |-> JNull, err |-> e]

AllSettledJoin(f) ==
    IF \A i \in 1..Len(f) : f[i].st # "pending" THEN "fulfilled" ELSE "pending"

\* Promise.all over the fetchData promises: it rejects with the first
\* rejection and is fulfilled once every promise is
PromiseAll(f) ==
    IF \E i \in 1..Len(f) : f[i].st = "rejected" THEN "rejected"
    ELSE IF \A i \in 1..Len(f) : f[i].st = "fulfilled" THEN "fulfilled"
    ELSE "pending"

ResultsBySettling(f, ord) == [i \in 1..Len(f) |-> f[ord[i]].val]

\* the array Promise.all is fulfilled with: the value of promise i at i
Results(f, ord) == [i \in 1..Len(f) |-> f[i].val]

NoOut ==
    [st |-> "none", error |-> "none", ranExtract |-> FALSE,
     extractedData |-> <<>>, mappedTitles |-> <<>>]

RejectedOut(e, ran) ==
    [st |-> "rejected", error |-> e, ranExtract |-> ran,
     extractedData |-> <<>>, mappedTitles |-> <<>>]

Entries(ex) == [i \in 1..Len(ex) |-> ex[i].entries]

\* the end of search(): mapTitles has returned or thrown
Return(extractedData, mapped) ==
    IF mapped.threw THEN RejectedOut("matcher threw", TRUE)
    ELSE [st |-> "resolved", error |-> "none", ranExtract |-> TRUE,
          extractedData |-> extractedData, mappedTitles |-> mapped.groups]

Map(extractedData) == Return(extractedData, mapTitles(extractedData))

\* search() after results.map(extractData) gave ex, an [err, entries] per
\* source: the first error thrown ends it
Extracted(ex) ==
    IF \E i \in 1..Len(ex) : ex[i].err # "none"
    THEN RejectedOut(ex[Min({ i \in 1..Len(ex) : ex[i].err # "none" })].err, TRUE)
    ELSE Map(Entries(ex))

\* search() once Promise.all is fulfilled with results
Resume(results, ws) ==
    Extracted([i \in 1..Len(results) |-> extractData(results[i], ws[i])])

\* search() after the await of Promise.all, given the fetch promises f and
\* the order ord they settled in: the record search() settles with, or
\* NoOut while Promise.all is pending
Joined(join, f, ord, ws) ==
    IF join = "pending" THEN NoOut
    ELSE IF join = "rejected"
    THEN RejectedOut(
             f[ord[Min({ j \in 1..Len(ord) : f[ord[j]].st = "rejected" })]].err,
             FALSE)
    ELSE Resume(Results(f, ord), ws)

Continue(f, ord, ws) == Joined(PromiseAll(f), f, ord, ws)

MaxSites == 3

PIdle ==
    /\ args = <<>> /\ websites = <<>> /\ pc = "idle" /\ fetch = <<>>
    /\ order = <<>> /\ requests = <<>> /\ out = NoOut

PInit ==
    /\ args \in SeqsUpTo(Configs, MaxSites)
    /\ websites = <<>> /\ pc = "new" /\ fetch = <<>>
    /\ order = <<>> /\ requests = <<>> /\ out = NoOut

\* new Maplify(...args)
Construct ==
    /\ pc = "new"
    /\ IF CtorAccepts(args)
       THEN websites' = args /\ pc' = "ready"
       ELSE websites' = <<>> /\ pc' = "ctorThrew"
    /\ UNCHANGED <<args, fetch, order, requests, out>>

\* the members of a set of indices, in ascending order
RECURSIVE Ascending(_)
Ascending(S) ==
    IF S = {} THEN <<>> ELSE <<Min(S)>> \o Ascending(S \ {Min(S)})

\* search(query) up to its await: fetchData is called for every website in
\* turn and either throws its configuration error, which rejects its
\* promise, or sends its request; then the reactions of Promise.all run
Search ==
    /\ pc = "ready"
    /\ LET n == Len(websites)
           sends(i) == ConfigError(websites[i]) = "none"
           sent == Ascending({ i \in 1..n : sends(i) })
       IN  /\ fetch' = [i \in 1..n |-> IF sends(i) THEN Pending
                                        ELSE Rejected(ConfigError(websites[i]))]
           /\ order' = Ascending({ i \in 1..n : ~sends(i) })
           /\ requests' = [j \in 1..Len(sent) |-> Request(sent[j], websites[sent[j]])]
    /\ \E o \in { Continue(fetch', order', websites) } :
           /\ out' = o
           /\ pc' = IF o.st = "none" THEN "awaiting" ELSE o.st
    /\ UNCHANGED <<args, websites>>

\* the promise of fetch i settles with s; when search() is still awaiting,
\* the reactions of Promise.all and the rest of search() run
Settle(i, s) ==
    /\ pc \in {"awaiting", "rejected"}
    /\ i \in 1..Len(fetch)
    /\ fetch[i].st = "pending"
    /\ fetch' = [fetch EXCEPT ![i] = s]
    /\ order' = Append(order, i)
    /\ \E o \in { IF pc = "awaiting" THEN Continue(fetch', order', websites)
                   ELSE out } :
           /\ out' = o
           /\ pc' = IF o.st = "none" THEN "awaiting" ELSE o.st
    /\ UNCHANGED <<args, websites, requests>>

\* the response of website i arrives
FetchFulfil ==
    \E i \in 1..MaxSites :
        /\ i <= Len(websites)
        /\ \E p \in Payloads(websites[i]) : Settle(i, Fulfilled(p))

\* the request to website i fails
FetchReject ==
    \E i \in 1..MaxSites : Settle(i, Rejected("transport"))

(***************************************************************************)
(* The specifications                                                      *)
(***************************************************************************)
Init == PInit /\ SanIdle /\ FaIdle /\ MIdle /\ XIdle

Next ==
    \/ Construct /\ UNCHANGED <<sanVars, faVars, mVars, xVars>>
    \/ Search /\ UNCHANGED <<sanVars, faVars, mVars, xVars>>
    \/ FetchFulfil /\ UNCHANGED <<sanVars, faVars, mVars, xVars>>
    \/ FetchReject /\ UNCHANGED <<sanVars, faVars, mVars, xVars>>

Spec == Init /\ [][Next]_vars

InitSanitize == SanInit /\ FaIdle /\ MIdle /\ XIdle /\ PIdle

NextSanitize == Sanitize /\ UNCHANGED <<faVars, mVars, xVars, pVars>>

SpecSanitize == InitSanitize /\ [][NextSanitize]_vars

InitFind == FaInit /\ SanIdle /\ MIdle /\ XIdle /\ PIdle

NextFind == FindArray /\ UNCHANGED <<sanVars, mVars, xVars, pVars>>

SpecFind == InitFind /\ [][NextFind]_vars

InitMatch == MInit /\ SanIdle /\ FaIdle /\ XIdle /\ PIdle

NextMatch == Match /\ UNCHANGED <<sanVars, faVars, xVars, pVars>>

SpecMatch == InitMatch /\ [][NextMatch]_vars

InitMap == XInit /\ SanIdle /\ FaIdle /\ MIdle /\ PIdle

NextMap ==
    \/ MapStep /\ UNCHANGED <<sanVars, faVars, mVars, pVars>>
    \/ MapReturn /\ UNCHANGED <<sanVars, faVars, mVars, pVars>>

SpecMap == InitMap /\ [][NextMap]_vars

(***************************************************************************)
(* The fetch/join pipeline (Spec)                                          *)
(***************************************************************************)
Started == pc \in {"awaiting", "resolved", "rejected"}

\* C1: once the fetch of any source has rejected (a transport failure or a
\* query/variables configuration error), search() has rejected: it holds
\* no result object, neither extractedData nor mappedTitles, and neither
\* extraction nor mapping has run, whatever the other fetches did before
\* or do afterwards.
RejectedFetchRejectsSearch ==
    (Started /\ \E i \in 1..Len(fetch) : fetch[i].st = "rejected")
        => /\ pc = "rejected"
           /\ out.st = "rejected"
           /\ ~out.ranExtract
           /\ out.extractedData = <<>>
           /\ out.mappedTitles = <<>>

\* the last fetch to settle rejected after every other one had resolved
LastFetchRejected ==
    /\ pc = "rejected"
    /\ Len(fetch) >= 2
    /\ Len(order) = Len(fetch)
    /\ fetch[order[Len(order)]].st = "rejected"
    /\ fetch[order[Len(order)]].err = "transport"
    /\ \A j \in 1..(Len(order) - 1) : fetch[order[j]].st = "fulfilled"

\* C2: when search() resolves, extractedData[i] is what extractData gives
\* for the payload of source i's own fetch under source i's own
\* configuration, in whatever order the fetches completed; and extraction
\* has run only when all the fetches were fulfilled.
ExtractedByOwnIndex ==
    /\ out.ranExtract => \A i \in 1..Len(fetch) : fetch[i].st = "fulfilled"
    /\ pc = "resolved" =>
          /\ Len(out.extractedData) = Len(websites)
          /\ \A i \in 1..Len(websites) :
                out.extractedData[i]
                    = extractData(fetch[i].val, websites[i]).entries

\* search() resolved although the fetches completed out of source order
\* with different payloads
ResolvedOutOfOrder ==
    /\ pc = "resolved"
    /\ order[1] # 1
    /\ extractData(fetch[1].val, websites[1]).entries
           # extractData(fetch[order[1]].val, websites[order[1]]).entries

\* C3: with 0 or 1 website the constructor throws, before any request is
\* sent or any fetch exists; with 2 or more it succeeds and this.websites
\* is the argument list in the given order.
ConstructorNeedsTwo ==
    /\ Len(args) < 2 =>
          /\ pc \in {"new", "ctorThrew"}
          /\ websites = <<>> /\ requests = <<>> /\ fetch = <<>>
    /\ Len(args) >= 2 =>
          /\ pc # "ctorThrew"
          /\ pc # "new" => websites = args

ConstructorThrew == pc = "ctorThrew" /\ Len(args) = 1

(***************************************************************************)
(* The normaliser (SpecSanitize)                                           *)
(***************************************************************************)
\* C4: sanitizeTitle is idempotent: applied to its own result it returns
\* that result again.
SanitizeIdempotent == Len(sOut) = 2 => sOut[2] = sOut[1]

(***************************************************************************)
(* The mapper (SpecMap)                                                    *)
(***************************************************************************)
\* the scores the matcher reports for the sources recorded in group g
RecordedScores(g) ==
    { FindBestMatchByTitles(g.base.title, xData[g.data[j][1]]).similarityScore :
        j \in 1..Len(g.data) }

\* C5: the score of every emitted group is the minimum of the scores the
\* matcher reports for exactly the sources recorded in the group, each of
\* which the matcher matched; a group records at least one source and its
\* score is finite.
GroupScoreIsMinimum ==
    \A n \in 1..Len(xGroups) :
        /\ Len(xGroups[n].data) >= 1
        /\ xGroups[n].score # Infinity
        /\ xGroups[n].score \in RecordedScores(xGroups[n])
        /\ \A sc \in RecordedScores(xGroups[n]) : ~Less(sc, xGroups[n].score)
        /\ \A j \in 1..Len(xGroups[n].data) :
              FindBestMatchByTitles(xGroups[n].base.title,
                  xData[xGroups[n].data[j][1]]).mostCommonMatchIndex # -1

\* a group of two recorded sources whose scores differ
GroupOfTwoScores ==
    \E n \in 1..Len(xGroups) :
        /\ Len(xGroups[n].data) = 2
        /\ Cardinality(RecordedScores(xGroups[n])) = 2

\* C8: a base entry whose title is undefined or empty is the base of no
\* group and the matcher is never called for it; skipping it throws
\* nothing, so every later base entry with a title is still handed to the
\* matcher, and the groups keep the order of the base source.
SkippedBaseEntries ==
    /\ \A n \in 1..Len(xGroups) :
          /\ xGroups[n].at \in 1..xK
          /\ xGroups[n].base = xData[1][xGroups[n].at]
          /\ Truthy(xGroups[n].base.title)
    /\ \A n \in 1..(Len(xGroups) - 1) : xGroups[n].at < xGroups[n + 1].at
    /\ \A c \in 1..Len(xCalls) : Truthy(xData[1][xCalls[c][1]].title)
    /\ xSt = "threw" => xK >= 1 /\ Truthy(xData[1][xK].title)
    /\ xSt = "done" =>
          \A k \in 1..Len(xData[1]) :
              Truthy(xData[1][k].title)
                  => \E c \in 1..Len(xCalls) : xCalls[c] = <<k, 2>>

\* mapTitles returned a group for a base entry that follows a skipped one
GroupAfterSkipped ==
    /\ xSt = "done"
    /\ \E k \in 1..Len(xData[1]) :
          /\ ~Truthy(xData[1][k].title)
          /\ \E n \in 1..Len(xGroups) : xGroups[n].at > k

(***************************************************************************)
(* The matcher (SpecMatch)                                                 *)
(***************************************************************************)
\* the matcher returned after a vote over at least one match
Voted ==
    /\ mOut # <<>>
    /\ ~mOut[1].threw
    /\ Truthy(mTitle)
    /\ Representations(mTitle) # <<>>

VoteMatches == Matches(mTitle, ResultTitles(mResults))

\* the representations, by position, whose match is the returned winner
WinnerOccurrences ==
    { i \in 1..Len(VoteMatches) :
        Some(VoteMatches[i].target) = mOut[1].mostCommonMatch }

VoteCount(i) ==
    Cardinality({ j \in 1..Len(VoteMatches) :
                    VoteMatches[j].target = VoteMatches[i].target })

\* C7: the winner is the target matched by the most representations and,
\* among targets matched equally often, the one of the earliest
\* representation.
WinnerIsMostVotedEarliest ==
    Voted =>
        mOut[1].mostCommonMatch
            = Some(VoteMatches[
                  Min({ i \in 1..Len(VoteMatches) :
                          \A j \in 1..Len(VoteMatches) :
                              VoteCount(j) <= VoteCount(i) })].target)

\* C10: an index other than -1 is a position of results, and the entry at
\* it is the candidate whose normalized title is the returned winner.
IndexSelectsWinner ==
    (mOut # <<>> /\ mOut[1].mostCommonMatchIndex # -1) =>
        /\ mOut[1].mostCommonMatchIndex + 1 \in 1..Len(mResults)
        /\ mResults[mOut[1].mostCommonMatchIndex + 1].title.k = "str"
        /\ sanitizeTitle(mResults[mOut[1].mostCommonMatchIndex + 1].title.v)
               = mOut[1].mostCommonMatch

(***************************************************************************)
(* The array search (SpecFind)                                             *)
(***************************************************************************)
\* the nodes of a decoded value in depth-first pre-order, the values of an
\* object in key order and the elements of an array in index order
RECURSIVE PreOrder(_)
RECURSIVE PreOrderAll(_)
PreOrder(x) ==
    <<x>> \o (IF x.t \in {"obj", "arr"}
              THEN PreOrderAll([i \in 1..Len(x.kv) |-> x.kv[i][2]])
              ELSE <<>>)

PreOrderAll(xs) ==
    IF xs = <<>> THEN <<>> ELSE PreOrder(Head(xs)) \o PreOrderAll(Tail(xs))

ArraysOf(x) == { i \in 1..Len(PreOrder(x)) : PreOrder(x)[i].t = "arr" }

\* C9: the search returns the first array of the payload in depth-first
\* pre-order, and a payload that holds no array gives null, reported as
\* the error "should contain an array property".
FindsFirstArray ==
    faOut # <<>> =>
        IF ArraysOf(payload) # {}
        THEN faOut[1] = FoundArray(PreOrder(payload)[Min(ArraysOf(payload))])
        ELSE /\ faOut[1] = FoundNull
             /\ ExtractApi(payload).err = "should contain an array property"

=============================================================================
